---- MODULE Spec2Model ----
(***************************************************************************)
(* Model of src/transformers/integrations/flex_attention.py:               *)
(*   - make_flex_block_causal_mask and its closure causal_mask_mod,        *)
(*   - the WrappedFlexAttention singleton and its accessor,                *)
(*   - flex_attention_forward with repeat_kv.                              *)
(* Tensors are indexed from 0 in the source and from 1 here: element       *)
(* [b, i] of a 2-D tensor t is t[b + 1][i + 1].                            *)
(***************************************************************************)
EXTENDS Integers, Sequences, FiniteSets, TLC

\* ------------------------------------------------------------------ bounds
MaxLen == 4         \* widths: total_seq_len, query_length, key_length
MaxDoc == 2         \* mask values are 0 (padding) .. MaxDoc (document ids)
MaxBatch == 2       \* batch_size
MaxCells == 4       \* batch_size * total_seq_len of the caller's mask
MaxChunk == 2       \* attention_chunk_size, when set
MaxNegChunk == 1    \* non-positive chunk sizes go down to -MaxNegChunk
MaxMaskHeads == 3   \* heads the built mask is looked up for
MaxRow == 6         \* width of the unpadded single rows of the chunk examples
MaxHeads == 6       \* query / key-value head counts
MaxFwdHeads == 3    \* head counts where every other argument varies too
MaxFwdBatch == 2    \* batch size of query, key and value
MaxFwdLen == 2      \* query length, key length and feature size
MaxKvHeads == 3     \* heads of the tensor repeat_kv is called on
MaxRep == 3         \* n_rep
MaxAxis == 2        \* batch, sequence and feature sizes of that tensor
MaxConfigValue == 2 \* values given for the integer fields of a sub-configuration
MaxTimeReduction == 4 \* time_reduction values given in an audio dict
MaxCalls == 2       \* calls each thread makes
MaxRacingCalls == 3 \* calls all concurrent threads make together
NumThreads == 2     \* concurrent callers

\* Optional values: None is the empty tuple, a present value x is <<x>>.
None == <<>>
Some(x) == <<x>>
Get(o) == o[1]

Max(a, b) == IF a >= b THEN a ELSE b

VARIABLES
    \* ---- make_flex_block_causal_mask
    heap,                  \* tensor storages, by storage id (1 is the caller's mask)
    attention_chunk_size,  \* None or Some(c)
    query_length,
    key_length,
    mask_pc,               \* "args" | "built" | "raised"
    attention_mask_2d,     \* storage id the local name is bound to
    document_ids,          \* storage id the local name is bound to
    block_mask,            \* None or Some(the BlockMask returned)
    mask_passed,           \* the caller's tensor as it was when first passed
    mask_results,          \* what the finished calls returned, in order
    \* ---- WrappedFlexAttention (class and instances)
    cls_instance,          \* WrappedFlexAttention._instance: None or Some(object id)
    objs,                  \* instance __dict__ of every object created, by object id
    compile_count,         \* number of torch.compile executions so far
    \* ---- callers
    pc,                    \* position of each thread
    self_ref,              \* the instance each thread got from __new__
    compiled_tmp,          \* the value of torch.compile(...) before it is stored
    ret,                   \* what each thread's accessor call returned
    calls,                 \* per thread: calls started
    instances_seen,        \* every object WrappedFlexAttention() has returned
    handles_seen,          \* every value WrappedFlexAttention()() has returned
    \* ---- flex_attention_forward (run by MainThread)
    fwd,                   \* arguments and locals of the call in progress
    kernel_calls,          \* number of invocations of the compiled kernel
    last_kernel_call,      \* None or Some(the invocation made by the latest call)
    fwd_result,            \* None or Some(how the latest flex_attention_forward ended)
    \* ---- repeat_kv called on its own
    kv_states,             \* the tensor passed in, as the sequence of its heads
    kv_n_rep,
    repeated,              \* None or Some(the tensor returned)
    \* ---- Phi4MultimodalConfig(...)
    config_args,           \* rope_scaling, vision_config and audio_config passed in
    config_pc,             \* "args" | "done" | "raised"
    config_self            \* None or Some(the attributes set on self)

maskVars == <<heap, attention_chunk_size, query_length, key_length, mask_pc,
              attention_mask_2d, document_ids, block_mask, mask_passed, mask_results>>
cacheVars == <<cls_instance, objs, compile_count>>
threadVars == <<pc, self_ref, compiled_tmp, ret, calls, instances_seen, handles_seen>>
fwdVars == <<fwd, kernel_calls, last_kernel_call, fwd_result>>
repeatVars == <<kv_states, kv_n_rep, repeated>>
configVars == <<config_args, config_pc, config_self>>
pureVars == <<repeatVars, configVars>>
vars == <<maskVars, cacheVars, threadVars, fwdVars, pureVars>>

CallerMask == 1     \* storage id of the tensor the caller passed

\* ------------------------------------------------------------ tensor helpers
Shape(t) == <<Len(t), Len(t[1])>>
InRange(t, b, i) == b + 1 \in 1..Len(t) /\ i + 1 \in 1..Len(t[b + 1])
At(t, b, i) == t[b + 1][i + 1]

\* torch.nn.functional.pad(t, value=v, pad=(left, right)) on the last axis
pad_to_right(t, v, left, right) ==
    [b \in 1..Len(t) |-> [i \in 1..right |-> IF i <= Len(t[b]) THEN t[b][i] ELSE v]]
pad_wrong_to_width(t, v, left, right) ==
    [b \in 1..Len(t) |->
        [i \in 1..Max(Len(t[b]), right) |-> IF i <= Len(t[b]) THEN t[b][i] ELSE v]]
pad(t, v, left, right) ==
    [b \in 1..Len(t) |->
        [i \in 1..(left + Len(t[b]) + right) |->
            IF i > left /\ i <= left + Len(t[b]) THEN t[b][i - left] ELSE v]]

\* F.pad returns a new tensor: the storage passed in is left as it is.
pad_in_place(h, ref, v, left, right) ==
    [heap |-> [h EXCEPT ![ref] = pad(h[ref], v, left, right)], ref |-> ref]
pad_alloc(h, ref, v, left, right) ==
    [heap |-> Append(h, pad(h[ref], v, left, right)), ref |-> Len(h) + 1]

\* Tensor.clone(): a new storage with the same contents
clone_alias(h, ref) == [heap |-> h, ref |-> ref]
clone(h, ref) == [heap |-> Append(h, h[ref]), ref |-> Len(h) + 1]

\* Tensor.fill_(v): in place, the same storage
fill_skipped(h, ref, v) == [heap |-> h, ref |-> ref]
fill_(h, ref, v) ==
    [heap |-> [h EXCEPT ![ref] = [b \in 1..Len(h[ref]) |->
                                     [i \in 1..Len(h[ref][b]) |-> v]]],
     ref |-> ref]

\* Tensor.cumsum(-1): running sum along the last axis
RECURSIVE RowSum(_, _)
RowSum(row, n) == IF n = 0 THEN 0 ELSE RowSum(row, n - 1) + row[n]
cumsum(t) == [b \in 1..Len(t) |-> [i \in 1..Len(t[b]) |-> RowSum(t[b], i)]]

\* Python's and torch's // rounds towards minus infinity, for either sign of
\* the divisor c # 0.
FloorDiv(a, c) == IF c > 0 THEN a \div c ELSE (0 - a) \div (0 - c)

\* (t - 1) // c, elementwise, c # 0
chunk_ids(t, c) ==
    [b \in 1..Len(t) |-> [i \in 1..Len(t[b]) |-> FloorDiv(t[b][i] - 1, c)]]

\* Integer // 0: on the CPU torch raises RuntimeError (ZeroDivisionError),
\* modelled as None; on an accelerator no error is raised and every quotient
\* is an unspecified value g, modelled as Some(g).
DivisionByZero(chunk) ==
    IF chunk # None /\ Get(chunk) = 0 THEN {None, Some(0 - 1), Some(0)} ELSE {None}
chunk_ids_by_zero(t, g) == [b \in 1..Len(t) |-> [i \in 1..Len(t[b]) |-> g]]

\* ------------------------------------------------------- causal_mask_mod
\* The closure reads the two tensors it captured.
causal_mask_mod_no_document(mask, docs, batch_idx, head_idx, q_idx, kv_idx) ==
    (q_idx >= kv_idx) /\ (At(mask, batch_idx, q_idx) > 0)
causal_mask_mod(mask, docs, batch_idx, head_idx, q_idx, kv_idx) ==
    LET causal_mask == q_idx >= kv_idx
        document_mask == At(docs, batch_idx, q_idx) = At(docs, batch_idx, kv_idx)
        padding_mask == At(mask, batch_idx, q_idx) > 0
        final_mask == causal_mask /\ padding_mask
    IN  final_mask /\ document_mask

\* Whether evaluating the closure at (b, q, k) indexes inside both tensors.
ModInRange(mask, docs, b, q, k) ==
    InRange(docs, b, q) /\ InRange(docs, b, k) /\ InRange(mask, b, q)

\* create_block_mask(mask_mod, B, H=None, Q_LEN, KV_LEN): the predicate is
\* evaluated for every b < B, q < Q_LEN, k < KV_LEN with one broadcast head.
create_block_causal_mask_flex_per_head(mask, docs, B, Q_LEN, KV_LEN) ==
    IF \A b \in 0..(B - 1), q \in 0..(Q_LEN - 1), k \in 0..(KV_LEN - 1) :
           ModInRange(mask, docs, b, q, k)
    THEN Some([B |-> B, H |-> 2, Q_LEN |-> Q_LEN, KV_LEN |-> KV_LEN,
               mask |-> {x \in (0..(B - 1)) \X {0, 1} \X (0..(Q_LEN - 1)) \X (0..(KV_LEN - 1)) :
                            causal_mask_mod(mask, docs, x[1], x[2], x[3], x[4])}])
    ELSE None
create_block_causal_mask_flex(mask, docs, B, Q_LEN, KV_LEN) ==
    IF \A b \in 0..(B - 1), q \in 0..(Q_LEN - 1), k \in 0..(KV_LEN - 1) :
           ModInRange(mask, docs, b, q, k)
    THEN Some([B |-> B, H |-> 1, Q_LEN |-> Q_LEN, KV_LEN |-> KV_LEN,
               mask |-> {x \in (0..(B - 1)) \X {0} \X (0..(Q_LEN - 1)) \X (0..(KV_LEN - 1)) :
                            causal_mask_mod(mask, docs, x[1], x[2], x[3], x[4])}])
    ELSE None

\* ------------------------------------------- make_flex_block_causal_mask
\* Lines 102-107: document_ids is a clone of the padded mask; in chunk mode
\* it is filled with ones in place and rebound to (cumsum - 1) // chunk.
\* zero is the outcome of a division by zero, when there is one; the result's
\* raised field tells that line 106 raised.
build_document_ids(h, mask_ref, chunk, zero) ==
    LET c == clone(h, mask_ref)
    IN  IF chunk # None
        THEN LET f == fill_(c.heap, c.ref, 1)
                 ids == IF Get(chunk) # 0
                        THEN chunk_ids(cumsum(f.heap[f.ref]), Get(chunk))
                        ELSE chunk_ids_by_zero(f.heap[f.ref], Get(zero))
             IN  IF Get(chunk) = 0 /\ zero = None
                 THEN [heap |-> f.heap, ref |-> f.ref, raised |-> TRUE]
                 ELSE [heap |-> Append(f.heap, ids), ref |-> Len(f.heap) + 1,
                       raised |-> FALSE]
        ELSE [heap |-> c.heap, ref |-> c.ref, raised |-> FALSE]

make_flex_block_causal_mask ==
    /\ mask_pc = "args"
    /\ \E batch_size \in {Shape(heap[CallerMask])[1]},
          p \in {pad_alloc(heap, CallerMask, 0, 0, key_length)},
          zero \in DivisionByZero(attention_chunk_size) :
             \E d \in {build_document_ids(p.heap, p.ref, attention_chunk_size, zero)} :
                \E bm \in {IF ~ d.raised /\ Shape(d.heap[d.ref]) = Shape(d.heap[p.ref])
                           THEN create_block_causal_mask_flex(
                                    d.heap[p.ref], d.heap[d.ref],
                                    batch_size, query_length, key_length)
                           ELSE None} :
                   /\ heap' = d.heap
                   /\ attention_mask_2d' = p.ref
                   /\ document_ids' = d.ref
                   /\ block_mask' = bm
                   /\ mask_results' = Append(mask_results, bm)
                   /\ mask_pc' = IF bm = None THEN "raised" ELSE "built"
    /\ UNCHANGED <<attention_chunk_size, query_length, key_length, mask_passed>>
    /\ UNCHANGED <<cacheVars, threadVars, fwdVars, pureVars>>

\* The caller calls again with the same tensor object and the same arguments.
make_flex_block_causal_mask_again ==
    /\ mask_pc \in {"built", "raised"}
    /\ Len(mask_results) = 1
    /\ mask_pc' = "args"
    /\ attention_mask_2d' = CallerMask
    /\ document_ids' = CallerMask
    /\ block_mask' = None
    /\ UNCHANGED <<heap, attention_chunk_size, query_length, key_length,
                   mask_passed, mask_results>>
    /\ UNCHANGED <<cacheVars, threadVars, fwdVars, pureVars>>

\* BlockMask lookup: the head axis is broadcast when H = 1.
allowed(b, h, q, k) ==
    LET bm == Get(block_mask)
    IN  <<b, IF bm.H = 1 THEN 0 ELSE h, q, k>> \in bm.mask

\* ------------------------------------------------- WrappedFlexAttention
Threads == 1..NumThreads
MainThread == 1

\* A new object has no attribute of its own: reads fall back to the class
\* attributes _is_flex_compiled = False and _compiled_flex_attention = None,
\* which are never rebound.
NewObject == [is_flex_compiled |-> FALSE, compiled_flex_attention |-> None]

\* __new__, line 56: if cls._instance is None
new_check_always == TRUE
new_check == cls_instance = None

New_check(t) ==
    /\ pc[t] = "new_check"
    /\ pc' = [pc EXCEPT ![t] = IF new_check THEN "new_create" ELSE "new_return"]
    /\ UNCHANGED <<self_ref, compiled_tmp, ret, calls, instances_seen, handles_seen>>
    /\ UNCHANGED <<pureVars, maskVars, cacheVars, fwdVars>>

\* __new__, line 58: cls._instance = super().__new__(cls)
New_create(t) ==
    /\ pc[t] = "new_create"
    /\ objs' = Append(objs, NewObject)
    /\ cls_instance' = Some(Len(objs) + 1)
    /\ pc' = [pc EXCEPT ![t] = "new_return"]
    /\ UNCHANGED <<compile_count, self_ref, compiled_tmp, ret, calls,
                   instances_seen, handles_seen>>
    /\ UNCHANGED <<pureVars, maskVars, fwdVars>>

\* __new__, line 59: return cls._instance (read again), then __init__ is entered
New_return(t) ==
    /\ pc[t] = "new_return"
    /\ self_ref' = [self_ref EXCEPT ![t] = cls_instance]
    /\ instances_seen' = instances_seen \cup {Get(cls_instance)}
    /\ pc' = [pc EXCEPT ![t] = "init_check"]
    /\ UNCHANGED <<compiled_tmp, ret, calls, handles_seen>>
    /\ UNCHANGED <<pureVars, maskVars, cacheVars, fwdVars>>

\* __init__, line 66: if self._is_flex_compiled is False
init_check_never(o) == FALSE
init_check_always(o) == TRUE
init_check(o) == objs[o].is_flex_compiled = FALSE

Init_check(t) ==
    /\ pc[t] = "init_check"
    /\ pc' = [pc EXCEPT ![t] = IF init_check(Get(self_ref[t]))
                               THEN "init_compile" ELSE "call"]
    /\ UNCHANGED <<self_ref, compiled_tmp, ret, calls, instances_seen, handles_seen>>
    /\ UNCHANGED <<pureVars, maskVars, cacheVars, fwdVars>>

\* __init__, line 67, right-hand side: torch.compile(flex_attention, ...)
\* returns a new callable each time it runs.
Init_compile(t) ==
    /\ pc[t] = "init_compile"
    /\ compile_count' = compile_count + 1
    /\ compiled_tmp' = [compiled_tmp EXCEPT ![t] = Some(compile_count + 1)]
    /\ pc' = [pc EXCEPT ![t] = "init_store"]
    /\ UNCHANGED <<cls_instance, objs, self_ref, ret, calls, instances_seen, handles_seen>>
    /\ UNCHANGED <<pureVars, maskVars, fwdVars>>

\* __init__, line 67, assignment: self._compiled_flex_attention = ...
Init_store(t) ==
    /\ pc[t] = "init_store"
    /\ objs' = [objs EXCEPT ![Get(self_ref[t])].compiled_flex_attention = compiled_tmp[t]]
    /\ compiled_tmp' = [compiled_tmp EXCEPT ![t] = None]
    /\ pc' = [pc EXCEPT ![t] = "init_flag"]
    /\ UNCHANGED <<cls_instance, compile_count, self_ref, ret, calls,
                   instances_seen, handles_seen>>
    /\ UNCHANGED <<pureVars, maskVars, fwdVars>>

\* __init__, line 68: self._is_flex_compiled = True
Init_flag(t) ==
    /\ pc[t] = "init_flag"
    /\ objs' = [objs EXCEPT ![Get(self_ref[t])].is_flex_compiled = TRUE]
    /\ pc' = [pc EXCEPT ![t] = "call"]
    /\ UNCHANGED <<cls_instance, compile_count, self_ref, compiled_tmp, ret, calls,
                   instances_seen, handles_seen>>
    /\ UNCHANGED <<pureVars, maskVars, fwdVars>>

\* __call__, line 71: return self._compiled_flex_attention
Call(t) ==
    /\ pc[t] = "call"
    /\ ret' = [ret EXCEPT ![t] = objs[Get(self_ref[t])].compiled_flex_attention]
    /\ handles_seen' = handles_seen \cup {objs[Get(self_ref[t])].compiled_flex_attention}
    /\ pc' = [pc EXCEPT ![t] = "invoke"]
    /\ UNCHANGED <<self_ref, compiled_tmp, calls, instances_seen>>
    /\ UNCHANGED <<pureVars, maskVars, cacheVars, fwdVars>>

\* The accessor WrappedFlexAttention()() as run by thread t.
Accessor(t) ==
    \/ New_check(t)
    \/ New_create(t)
    \/ New_return(t)
    \/ Init_check(t)
    \/ Init_compile(t)
    \/ Init_store(t)
    \/ Init_flag(t)
    \/ Call(t)

\* ------------------------------------------ compile_friendly_flex_attention
\* A thread calls compile_friendly_flex_attention directly (line 141).
RECURSIVE CallsStarted(_)
CallsStarted(n) == IF n = 0 THEN 0 ELSE CallsStarted(n - 1) + calls[n]

compile_friendly_flex_attention_enter(t) ==
    /\ pc[t] = "idle"
    /\ calls[t] < MaxCalls
    /\ CallsStarted(NumThreads) < MaxRacingCalls
    /\ calls' = [calls EXCEPT ![t] = calls[t] + 1]
    /\ pc' = [pc EXCEPT ![t] = "new_check"]
    /\ UNCHANGED <<self_ref, compiled_tmp, ret, instances_seen, handles_seen>>
    /\ UNCHANGED <<pureVars, maskVars, cacheVars, fwdVars>>

\* ------------------------------------------------------------- repeat_kv
\* A tensor's head axis is the sequence of its heads; expand inserts an axis
\* of n_rep copies after the head axis and reshape merges the two axes.
repeat_kv_tiled(hidden_states, n_rep) ==
    IF n_rep = 1
    THEN hidden_states
    ELSE [j \in 1..(Len(hidden_states) * n_rep) |->
             hidden_states[((j - 1) % Len(hidden_states)) + 1]]
repeat_kv(hidden_states, n_rep) ==
    LET num_key_value_heads == Len(hidden_states)
        expanded == [h \in 1..num_key_value_heads |->
                        [r \in 1..n_rep |-> hidden_states[h]]]
    IN  IF n_rep = 1
        THEN hidden_states
        ELSE [j \in 1..(num_key_value_heads * n_rep) |->
                 expanded[((j - 1) \div n_rep) + 1][((j - 1) % n_rep) + 1]]

\* repeat_kv called directly: a tensor of shape (batch, heads, slen, head_dim)
\* is the sequence of its heads, each a batch x slen x head_dim block whose
\* elements name their own position.
KvTensor(heads, batch, slen, head_dim) ==
    [h \in 1..heads |->
        [b \in 1..batch |->
            [p \in 1..slen |->
                [d \in 1..head_dim |-> 1000 * h + 100 * b + 10 * p + d]]]]

repeat_kv_call ==
    /\ repeated = None
    /\ kv_states # <<>>
    /\ repeated' = Some(repeat_kv(kv_states, kv_n_rep))
    /\ UNCHANGED <<kv_states, kv_n_rep, configVars>>
    /\ UNCHANGED <<maskVars, cacheVars, threadVars, fwdVars>>

\* --------------------------------------------------- Phi4MultimodalConfig
\* Defaults of the sub-configurations' parameters
num_hidden_layers == 27
num_channels == 3
input_size == 80
time_reduction == 8

\* A vision_config argument is None, a dict or a Phi4MultimodalVisionConfig;
\* of its fields num_hidden_layers and num_channels are kept. A dict may
\* leave a key out (None); an object has every attribute.
NoVision == [kind |-> "NoneType", num_hidden_layers |-> None, num_channels |-> None]
VisionDict(layers, channels) ==
    [kind |-> "dict", num_hidden_layers |-> layers, num_channels |-> channels]

\* Phi4MultimodalVisionConfig(**d)
Phi4MultimodalVisionConfig(d) ==
    [kind |-> "Phi4MultimodalVisionConfig",
     num_hidden_layers |-> Some(IF d.num_hidden_layers = None THEN num_hidden_layers
                                ELSE Get(d.num_hidden_layers)),
     num_channels |-> Some(IF d.num_channels = None THEN num_channels
                           ELSE Get(d.num_channels))]

\* An audio_config argument likewise, with time_reduction and input_size;
\* the object also has nemo_final_size.
NoAudio == [kind |-> "NoneType", time_reduction |-> None, input_size |-> None,
            nemo_final_size |-> None]
AudioDict(reduction, size) ==
    [kind |-> "dict", time_reduction |-> reduction, input_size |-> size,
     nemo_final_size |-> None]

\* int(math.log(n, 2)) for n >= 1
RECURSIVE IntLog2(_)
IntLog2(n) == IF n < 2 THEN 0 ELSE 1 + IntLog2(n \div 2)

\* Lines 238-241: length = math.floor((length - 1) / 2 + 1), rounds times
RECURSIVE nemo_final_size(_, _)
nemo_final_size(length, rounds) ==
    IF rounds = 0 THEN length ELSE nemo_final_size(((length - 1) \div 2) + 1, rounds - 1)

\* Phi4MultimodalAudioConfig(**d): ValueError when time_reduction is odd
Phi4MultimodalAudioConfig(d) ==
    LET reduction == IF d.time_reduction = None THEN time_reduction ELSE Get(d.time_reduction)
        size == IF d.input_size = None THEN input_size ELSE Get(d.input_size)
    IN  IF reduction % 2 # 0
        THEN [raised |-> TRUE, value |-> NoAudio]
        ELSE [raised |-> FALSE,
              value |-> [kind |-> "Phi4MultimodalAudioConfig",
                         time_reduction |-> Some(reduction), input_size |-> Some(size),
                         nemo_final_size |-> Some(nemo_final_size(size, IntLog2(reduction)))]]

\* Lines 415-425 of Phi4MultimodalConfig.__init__: the two sub-configurations
sub_configs(vision_config, audio_config) ==
    LET discarded == Phi4MultimodalVisionConfig(VisionDict(None, None))
        \* line 418 builds the default and binds it to nothing
        vision_config1 == IF vision_config.kind = "dict"
                          THEN Phi4MultimodalVisionConfig(vision_config)
                          ELSE IF vision_config.kind = "NoneType"
                          THEN vision_config
                          ELSE vision_config
        built == IF audio_config.kind = "dict"
                 THEN Phi4MultimodalAudioConfig(audio_config)
                 ELSE IF vision_config1.kind = "NoneType"
                 THEN Phi4MultimodalAudioConfig(AudioDict(None, None))
                 ELSE [raised |-> FALSE, value |-> audio_config]
    IN  [raised |-> built.raised,
         vision_config |-> vision_config1, audio_config |-> built.value]

\* Phi4MultimodalConfig(rope_scaling=..., vision_config=..., audio_config=...):
\* rope_scaling is None or the empty dict, which _rope_scaling_validation
\* rejects (lines 447-451) before the sub-configurations are looked at.
Phi4MultimodalConfig_init ==
    /\ config_pc = "args"
    /\ config_args # None
    /\ \E a \in {Get(config_args)} :
          \E sub \in {sub_configs(a.vision_config, a.audio_config)} :
             IF a.rope_scaling # None \/ sub.raised
             THEN /\ config_pc' = "raised"
                  /\ config_self' = None
             ELSE /\ config_pc' = "done"
                  /\ config_self' = Some([vision_config |-> sub.vision_config,
                                           audio_config |-> sub.audio_config])
    /\ UNCHANGED <<config_args, repeatVars>>
    /\ UNCHANGED <<maskVars, cacheVars, threadVars, fwdVars>>

\* ------------------------------------------------- flex_attention_forward
\* Python's & on non-negative integers
RECURSIVE BitAnd(_, _)
BitAnd(a, b) ==
    IF a = 0 \/ b = 0 THEN 0
    ELSE (a % 2) * (b % 2) + 2 * BitAnd(a \div 2, b \div 2)

\* Line 202: (num_local_query_heads & (num_local_query_heads - 1)) == 0
is_power_of_two_even(n) == n % 2 = 0
is_power_of_two(n) == BitAnd(n, n - 1) = 0

\* Lines 198-205: grouped-query handling
gqa_dispatch(query_heads, key, value) ==
    LET num_local_query_heads == query_heads
    IN  IF ~ is_power_of_two(num_local_query_heads)
        THEN [key |-> repeat_kv(key, num_local_query_heads),
              value |-> repeat_kv(value, num_local_query_heads),
              enable_gqa |-> FALSE]
        ELSE [key |-> key, value |-> value, enable_gqa |-> TRUE]

Divides(a, b) == b % a = 0
Min(a, b) == IF a <= b THEN a ELSE b

\* A dense additive mask of shape (B, heads, Lq, width) is given by its
\* head count and width; its element [b][h][q][k] is a number that names
\* its position.
DenseMask(heads, width) == [kind |-> "dense", heads |-> heads, width |-> width]
BlockMaskArg == [kind |-> "BlockMask", heads |-> 0, width |-> 0]
DenseAt(m, b, h, q, k) == 1000 * b + 100 * h + 10 * q + k + 1

\* head_mask[b][h][0][0]
HeadMaskAt(b, h) == 10000 * (10 * b + h + 1)

\* Line 181: isinstance(attention_mask, BlockMask)
is_block_mask(attention_mask) ==
    attention_mask # None /\ Get(attention_mask).kind = "BlockMask"

\* Line 187: causal_mask[:, :, :, : key.shape[-2]]
slice_last_axis_kept(m, n) == m
slice_last_axis(m, n) == [m EXCEPT !.width = Min(m.width, n)]

\* Lines 179-187: which of block_mask and causal_mask is set
select_mask(attention_mask, key_len) ==
    LET block_mask0 == None
        causal_mask0 == None
        block_mask1 == IF is_block_mask(attention_mask) THEN attention_mask ELSE block_mask0
        causal_mask1 == IF is_block_mask(attention_mask) THEN causal_mask0 ELSE attention_mask
        causal_mask2 == IF causal_mask1 # None
                        THEN Some(slice_last_axis(Get(causal_mask1), key_len))
                        ELSE causal_mask1
    IN  [block_mask |-> block_mask1, causal_mask |-> causal_mask2]

\* Scores are kept symbolic: [tanh |-> None, plus |-> x] is the number x, and
\* [tanh |-> Some([softcap |-> c, of |-> v]), plus |-> x] is c * tanh(v / c) + x.
Score(x) == [tanh |-> None, plus |-> x]
SoftCapped(c, v) == [tanh |-> Some([softcap |-> c, of |-> v]), plus |-> 0]
Plus(v, x) == [v EXCEPT !.plus = @ + x]

\* Lines 189-196: the closure cl holds softcap, causal_mask and head_mask.
score_mod_cap_last(cl, score, batch_idx, head_idx, q_idx, kv_idx) ==
    LET s1 == IF cl.causal_mask # None
              THEN Plus(score, DenseAt(Get(cl.causal_mask), batch_idx, 0, q_idx, kv_idx))
              ELSE score
        s2 == IF cl.head_mask # None THEN Plus(s1, HeadMaskAt(batch_idx, head_idx)) ELSE s1
    IN  IF cl.softcap # None THEN SoftCapped(Get(cl.softcap), s2) ELSE s2
score_mod(cl, score, batch_idx, head_idx, q_idx, kv_idx) ==
    LET s1 == IF cl.softcap # None THEN SoftCapped(Get(cl.softcap), score) ELSE score
        s2 == IF cl.causal_mask # None
              THEN Plus(s1, DenseAt(Get(cl.causal_mask), batch_idx, 0, q_idx, kv_idx))
              ELSE s1
        s3 == IF cl.head_mask # None THEN Plus(s2, HeadMaskAt(batch_idx, head_idx)) ELSE s2
    IN  s3

\* Lines 179-205: the locals of flex_attention_forward when it reaches the
\* kernel call. query has shape (B, Hq, Lq, D); key and value have Hkv heads,
\* numbered 1..Hkv, Lk positions and D features.
forward_locals(a) ==
    LET sel == select_mask(a.attention_mask, a.Lk)
        g == gqa_dispatch(a.Hq, [h \in 1..a.Hkv |-> h], [h \in 1..a.Hkv |-> h])
    IN  [args |-> a, Hq |-> a.Hq, Hkv |-> a.Hkv,
         query |-> <<a.B, a.Hq, a.Lq, a.D>>,
         key |-> g.key, value |-> g.value, enable_gqa |-> g.enable_gqa,
         block_mask |-> sel.block_mask, causal_mask |-> sel.causal_mask,
         score_mod |-> [softcap |-> a.softcap, causal_mask |-> sel.causal_mask,
                        head_mask |-> a.head_mask],
         kernel_calls_before |-> kernel_calls,
         kernel_out |-> None]

\* Lines 207-218: what the kernel is called with
kernel_call_no_lse(f) ==
    [Hq |-> f.Hq, Hkv |-> f.Hkv, query |-> f.query, key |-> f.key, value |-> f.value,
     score_mod |-> f.score_mod, block_mask |-> f.block_mask,
     enable_gqa |-> f.enable_gqa, scale |-> f.args.scaling, return_lse |-> FALSE]
kernel_call(f) ==
    [Hq |-> f.Hq, Hkv |-> f.Hkv, query |-> f.query, key |-> f.key, value |-> f.value,
     score_mod |-> f.score_mod, block_mask |-> f.block_mask,
     enable_gqa |-> f.enable_gqa, scale |-> f.args.scaling, return_lse |-> TRUE]

\* The kernel is opaque: it may raise on any call; when it returns, the
\* output has the shape of the query and the log-sum-exp one value per
\* (batch, head, query position).
KernelErrors == {"AcceleratorError", "ShapeError"}
KernelOutcomes == {None} \cup {Some(e) : e \in KernelErrors}
kernel_output(query) ==
    [attn_output |-> query, lse |-> <<query[1], query[2], query[3]>>]

\* An exception leaves flex_attention_forward: there is no try or except.
call_raised_swallowed(f, e) ==
    [status |-> "returned", call |-> f, error |-> None,
     output |-> Some(<<f.query[1], f.query[3], f.query[2], f.query[4]>>),
     weights |-> Some(<<f.query[1], f.query[2], f.query[3]>>)]
call_raised(f, e) ==
    [status |-> "raised", call |-> f, error |-> Some(e), output |-> None, weights |-> None]

\* Tensor.transpose(d0, d1) on a shape, axes counted from 0
transpose_kept(shape, d0, d1) == shape
transpose(shape, d0, d1) ==
    [i \in 1..Len(shape) |->
        IF i = d0 + 1 THEN shape[d1 + 1] ELSE IF i = d1 + 1 THEN shape[d0 + 1] ELSE shape[i]]

\* Lines 219-223: the pair returned
call_returned(f) ==
    [status |-> "returned", call |-> f, error |-> None,
     output |-> Some(transpose(Get(f.kernel_out).attn_output, 1, 2)),
     weights |-> Some(Get(f.kernel_out).lse)]

\* __init__, line 67, when torch.compile raises: the assignment and line 68
\* are not reached, and the error leaves __init__, the accessor and its caller.
after_compile_error_flagged(os, o) == [os EXCEPT ![o].is_flex_compiled = TRUE]
after_compile_error(os, o) == os

Init_compile_raise(t) ==
    /\ pc[t] = "init_compile"
    /\ compile_count' = compile_count + 1
    /\ objs' = after_compile_error(objs, Get(self_ref[t]))
    /\ pc' = [pc EXCEPT ![t] = "idle"]
    /\ fwd' = None
    /\ fwd_result' = IF fwd = None THEN fwd_result
                     ELSE Some(call_raised(Get(fwd), "CompileError"))
    /\ UNCHANGED <<cls_instance, self_ref, compiled_tmp, ret, calls,
                   instances_seen, handles_seen>>
    /\ UNCHANGED <<kernel_calls, last_kernel_call>>
    /\ UNCHANGED <<pureVars, maskVars>>

\* Lines 149-154: flex_attention_compiled(query, key, value, **kwargs).
\* Calling None raises TypeError; whatever is raised ends the call.
compile_friendly_flex_attention_invoke(t) ==
    /\ pc[t] = "invoke"
    /\ \E outcome \in KernelOutcomes :
          IF ret[t] = None
          THEN /\ pc' = [pc EXCEPT ![t] = "idle"]
               /\ fwd' = None
               /\ fwd_result' = IF fwd = None THEN fwd_result
                                ELSE Some(call_raised(Get(fwd), "TypeError"))
               /\ UNCHANGED <<kernel_calls, last_kernel_call>>
          ELSE /\ kernel_calls' = kernel_calls + 1
               /\ last_kernel_call' =
                     Some([fn |-> Get(ret[t]),
                           kwargs |-> IF fwd = None THEN None
                                      ELSE Some(kernel_call(Get(fwd))),
                           raised |-> outcome])
               /\ IF fwd = None
                  THEN /\ pc' = [pc EXCEPT ![t] = "idle"]
                       /\ UNCHANGED <<fwd, fwd_result>>
                  ELSE IF outcome = None
                  THEN /\ pc' = [pc EXCEPT ![t] = "fwd_finish"]
                       /\ fwd' = Some([Get(fwd) EXCEPT
                                          !.kernel_out = Some(kernel_output(Get(fwd).query))])
                       /\ UNCHANGED fwd_result
                  ELSE /\ pc' = [pc EXCEPT ![t] = "idle"]
                       /\ fwd' = None
                       /\ fwd_result' = Some(call_raised(Get(fwd), Get(outcome)))
    /\ UNCHANGED <<self_ref, compiled_tmp, ret, calls, instances_seen, handles_seen>>
    /\ UNCHANGED <<pureVars, maskVars, cacheVars>>

\* The arguments flex_attention_forward is called with
HeadCounts(n) == {hh \in (1..n) \X (1..n) : Divides(hh[2], hh[1])}

ForwardArgs(shape, hh, m, o) ==
    [B |-> shape[1], Hq |-> hh[1], Hkv |-> hh[2], Lq |-> shape[2], Lk |-> shape[3],
     D |-> shape[4], attention_mask |-> m,
     scaling |-> o[1], softcap |-> o[2], head_mask |-> o[3]]

\* attention_mask=None and the defaults scaling=None, softcap=None, head_mask=None
PlainShapes == {<<1, 1, 1, 1>>}
PlainMasks == {None}
PlainOptions == {<<None, None, None>>}

AllShapes == (1..MaxFwdBatch) \X (1..MaxFwdLen) \X (1..MaxFwdLen) \X (1..MaxFwdLen)
AllMasks ==
    {None, Some(BlockMaskArg)} \cup {Some(DenseMask(2, w)) : w \in 1..(MaxFwdLen + 1)}
AllOptions == {None, Some(5)} \X {None, Some(30)} \X {None, Some("head_mask")}

\* Lines 168-207: the call and everything before the kernel is obtained
flex_attention_forward_begin(shapes, heads, masks, options, max_calls) ==
    /\ pc[MainThread] = "idle"
    /\ calls[MainThread] < max_calls
    /\ \E shape \in shapes, hh \in heads, m \in masks, o \in options :
          fwd' = Some(forward_locals(ForwardArgs(shape, hh, m, o)))
    /\ last_kernel_call' = None
    /\ fwd_result' = None
    /\ calls' = [calls EXCEPT ![MainThread] = calls[MainThread] + 1]
    /\ pc' = [pc EXCEPT ![MainThread] = "new_check"]
    /\ UNCHANGED <<self_ref, compiled_tmp, ret, instances_seen, handles_seen>>
    /\ UNCHANGED kernel_calls
    /\ UNCHANGED <<pureVars, maskVars, cacheVars>>

\* Lines 219-223: the results are post-processed and returned.
flex_attention_forward_finish ==
    /\ pc[MainThread] = "fwd_finish"
    /\ fwd_result' = Some(call_returned(Get(fwd)))
    /\ fwd' = None
    /\ pc' = [pc EXCEPT ![MainThread] = "idle"]
    /\ UNCHANGED <<self_ref, compiled_tmp, ret, calls, instances_seen, handles_seen>>
    /\ UNCHANGED <<kernel_calls, last_kernel_call>>
    /\ UNCHANGED <<pureVars, maskVars, cacheVars>>

\* ---------------------------------------------------------- specifications
RepeatUnused ==
    /\ kv_states = <<>>
    /\ kv_n_rep = 0
    /\ repeated = None

ConfigUnused ==
    /\ config_args = None
    /\ config_pc = "args"
    /\ config_self = None

MaskIdle ==
    /\ mask_pc = "args"
    /\ attention_mask_2d = CallerMask
    /\ document_ids = CallerMask
    /\ block_mask = None
    /\ mask_results = <<>>

CacheInit ==
    /\ cls_instance = None
    /\ objs = <<>>
    /\ compile_count = 0

ThreadsInit ==
    /\ pc = [t \in Threads |-> "idle"]
    /\ self_ref = [t \in Threads |-> None]
    /\ compiled_tmp = [t \in Threads |-> None]
    /\ ret = [t \in Threads |-> None]
    /\ calls = [t \in Threads |-> 0]
    /\ instances_seen = {}
    /\ handles_seen = {}

FwdInit ==
    /\ fwd = None
    /\ kernel_calls = 0
    /\ last_kernel_call = None
    /\ fwd_result = None

\* The caller's mask: batch_size rows of total_seq_len values each.
Masks ==
    UNION {[1..B -> [1..S -> 0..MaxDoc]] :
              <<B, S>> \in {x \in (1..MaxBatch) \X (1..MaxLen) : x[1] * x[2] <= MaxCells}}

ChunkSizes == {None} \cup {Some(c) : c \in 1..MaxChunk}

\* make_flex_block_causal_mask on every mask, chunk size and pair of lengths
InitMask ==
    /\ \E m \in Masks : heap = <<m>> /\ mask_passed = m
    /\ attention_chunk_size \in ChunkSizes
    /\ query_length \in 1..MaxLen
    /\ key_length \in 1..MaxLen
    /\ MaskIdle
    /\ CacheInit /\ ThreadsInit /\ FwdInit /\ RepeatUnused /\ ConfigUnused

NextMask == make_flex_block_causal_mask

SpecMask == InitMask /\ [][NextMask]_vars

\* The same inputs, and the caller calls a second time
NextMaskAgain ==
    \/ make_flex_block_causal_mask
    \/ make_flex_block_causal_mask_again

SpecMaskAgain == InitMask /\ [][NextMaskAgain]_vars

\* Chunk sizes that are not positive
BadChunkSizes == {Some(c) : c \in (0 - MaxNegChunk)..0}

InitMaskBadChunk ==
    /\ \E m \in Masks : heap = <<m>> /\ mask_passed = m
    /\ attention_chunk_size \in BadChunkSizes
    /\ query_length \in 1..MaxLen
    /\ key_length \in 1..MaxLen
    /\ MaskIdle
    /\ CacheInit /\ ThreadsInit /\ FwdInit /\ RepeatUnused /\ ConfigUnused

SpecMaskBadChunk == InitMaskBadChunk /\ [][NextMask]_vars

\* Single rows without padding, up to MaxRow wide, in chunk mode
UnpaddedRows == {<<[i \in 1..S |-> d]>> : S \in 1..MaxRow, d \in 1..MaxDoc}

InitMaskRows ==
    /\ \E m \in UnpaddedRows : heap = <<m>> /\ mask_passed = m
    /\ attention_chunk_size \in {Some(c) : c \in 1..MaxChunk}
    /\ query_length \in 1..MaxRow
    /\ key_length \in 1..MaxRow
    /\ MaskIdle
    /\ CacheInit /\ ThreadsInit /\ FwdInit /\ RepeatUnused /\ ConfigUnused

SpecMaskRows == InitMaskRows /\ [][NextMask]_vars

MaskUnused ==
    /\ heap = <<>>
    /\ mask_passed = <<>>
    /\ attention_chunk_size = None
    /\ query_length = 0
    /\ key_length = 0
    /\ MaskIdle

\* Threads calling compile_friendly_flex_attention concurrently
InitThreads == MaskUnused /\ CacheInit /\ ThreadsInit /\ FwdInit /\ RepeatUnused /\ ConfigUnused

NextThreads ==
    \E t \in Threads :
        \/ compile_friendly_flex_attention_enter(t)
        \/ Accessor(t)
        \/ compile_friendly_flex_attention_invoke(t)

SpecThreads == InitThreads /\ [][NextThreads]_vars

\* One thread calling flex_attention_forward again and again
InitForward == MaskUnused /\ CacheInit /\ ThreadsInit /\ FwdInit /\ RepeatUnused /\ ConfigUnused

NextForward ==
    \/ flex_attention_forward_begin(PlainShapes, HeadCounts(MaxHeads), PlainMasks,
                                    PlainOptions, MaxCalls)
    \/ Accessor(MainThread)
    \/ compile_friendly_flex_attention_invoke(MainThread)
    \/ flex_attention_forward_finish

SpecForward == InitForward /\ [][NextForward]_vars

\* One call of flex_attention_forward, over all its arguments
InitDispatch == MaskUnused /\ CacheInit /\ ThreadsInit /\ FwdInit /\ RepeatUnused /\ ConfigUnused

NextDispatch ==
    \/ flex_attention_forward_begin(AllShapes, HeadCounts(MaxFwdHeads), AllMasks,
                                    AllOptions, 1)
    \/ Accessor(MainThread)
    \/ compile_friendly_flex_attention_invoke(MainThread)
    \/ flex_attention_forward_finish

SpecDispatch == InitDispatch /\ [][NextDispatch]_vars

\* One thread calling flex_attention_forward while torch.compile may raise
InitCompileFails == MaskUnused /\ CacheInit /\ ThreadsInit /\ FwdInit /\ RepeatUnused /\ ConfigUnused

NextCompileFails ==
    \/ flex_attention_forward_begin(PlainShapes, HeadCounts(MaxFwdHeads), PlainMasks,
                                    PlainOptions, MaxCalls)
    \/ Accessor(MainThread)
    \/ Init_compile_raise(MainThread)
    \/ compile_friendly_flex_attention_invoke(MainThread)
    \/ flex_attention_forward_finish

SpecCompileFails == InitCompileFails /\ [][NextCompileFails]_vars

\* repeat_kv on every tensor and repeat count of the bounds
InitRepeat ==
    /\ \E heads \in 1..MaxKvHeads, batch \in 1..MaxAxis, slen \in 1..MaxAxis,
          head_dim \in 1..MaxAxis :
             kv_states = KvTensor(heads, batch, slen, head_dim)
    /\ kv_n_rep \in 1..MaxRep
    /\ repeated = None
    /\ MaskUnused /\ CacheInit /\ ThreadsInit /\ FwdInit /\ ConfigUnused

NextRepeat == repeat_kv_call

SpecRepeat == InitRepeat /\ [][NextRepeat]_vars

\* Phi4MultimodalConfig on every combination of the three arguments
OptionalValues == {None} \cup {Some(v) : v \in 1..MaxConfigValue}
VisionDicts == {VisionDict(l, c) : l \in OptionalValues, c \in OptionalValues}
VisionArgs ==
    {NoVision} \cup VisionDicts \cup {Phi4MultimodalVisionConfig(d) : d \in VisionDicts}
AudioDicts ==
    {AudioDict(r, z) : r \in {None} \cup {Some(v) : v \in 1..MaxTimeReduction},
                       z \in OptionalValues}
AudioArgs ==
    {NoAudio} \cup AudioDicts
        \cup {Phi4MultimodalAudioConfig(d).value :
                 d \in {x \in AudioDicts : ~ Phi4MultimodalAudioConfig(x).raised}}
RopeScalings == {None, Some("empty dict")}

InitConfig ==
    /\ \E r \in RopeScalings, v \in VisionArgs, a \in AudioArgs :
          config_args = Some([rope_scaling |-> r, vision_config |-> v, audio_config |-> a])
    /\ config_pc = "args"
    /\ config_self = None
    /\ MaskUnused /\ CacheInit /\ ThreadsInit /\ FwdInit /\ RepeatUnused

NextConfig == Phi4MultimodalConfig_init

SpecConfig == InitConfig /\ [][NextConfig]_vars

\* ------------------------------------------------------------------ claims
\* The caller's mask M, its shape, and M read as 0 beyond its width.
M == heap[CallerMask]
batch_size == Shape(M)[1]
total_seq_len == Shape(M)[2]
MZ(b, i) == IF i < total_seq_len THEN At(M, b, i) ELSE 0
Batches == 0..(batch_size - 1)
Heads == 0..(MaxMaskHeads - 1)
Queries == 0..(query_length - 1)
Keys == 0..(key_length - 1)
IsPow2(n) == \E e \in 0..n : 2 ^ e = n

\* C1: without a chunk size, the built predicate is true exactly when
\* q >= k, M[b,q] = M[b,k] and M[b,q] > 0, M read as 0 beyond its width; for
\* M = [[1,1,2,2]] and lengths 4 the allowed pairs are exactly the six listed.
C1_PackedPredicate ==
    (mask_pc = "built" /\ attention_chunk_size = None) =>
        /\ \A b \in Batches, h \in Heads, q \in Queries, k \in Keys :
              allowed(b, h, q, k) <=>
                  (q >= k /\ MZ(b, q) = MZ(b, k) /\ MZ(b, q) > 0)
        /\ (M = <<(<<1, 1, 2, 2>>)>> /\ query_length = 4 /\ key_length = 4) =>
              \A h \in Heads :
                 {<<q, k>> \in Queries \X Keys : allowed(0, h, q, k)}
                    = {<<0, 0>>, <<1, 0>>, <<1, 1>>, <<2, 2>>, <<3, 2>>, <<3, 3>>}

C1_Witness ==
    /\ mask_pc = "built" /\ attention_chunk_size = None
    /\ M = <<(<<1, 1, 2, 2>>)>> /\ query_length = 4 /\ key_length = 4
    /\ allowed(0, 1, 3, 2) /\ ~ allowed(0, 0, 2, 1)

\* C2: in both modes no pair with a padding query (M[b,q] = 0) is allowed.
C2_PaddingNeverQueries ==
    mask_pc = "built" =>
        \A b \in Batches, h \in Heads, q \in Queries, k \in Keys :
            MZ(b, q) = 0 => ~ allowed(b, h, q, k)

\* Chunk mode, a padding query inside the caller's mask, and a key of the same
\* chunk before it: only the padding check rejects the pair.
C2_Witness ==
    /\ mask_pc = "built" /\ attention_chunk_size = Some(2)
    /\ query_length >= 2 /\ key_length >= 2 /\ total_seq_len >= 2
    /\ At(M, 0, 1) = 0 /\ At(M, 0, 0) > 0
    /\ ~ allowed(0, 0, 1, 0) /\ allowed(0, 0, 0, 0)

\* C3: with chunk size c > 0 the document id of position p is p // c in every
\* row, whatever the mask holds there, and the predicate is q >= k, q // c =
\* k // c and M[b,q] > 0.
C3_ChunkDocumentIds ==
    (mask_pc # "args" /\ attention_chunk_size # None) =>
        LET c == Get(attention_chunk_size)
            ids == heap[document_ids]
        IN  /\ \A b \in 1..Len(ids) : \A p \in 1..Len(ids[b]) :
                  ids[b][p] = (p - 1) \div c
            /\ mask_pc = "built" =>
                  \A b \in Batches, h \in Heads, q \in Queries, k \in Keys :
                     allowed(b, h, q, k) <=>
                         (q >= k /\ q \div c = k \div c /\ MZ(b, q) > 0)

C3_Witness ==
    /\ mask_pc = "built" /\ attention_chunk_size = Some(2)
    /\ M = <<(<<2, 0, 1>>)>> /\ query_length = 3 /\ key_length = 3
    /\ heap[document_ids][1][3] = 1
    /\ allowed(0, 0, 2, 2) /\ ~ allowed(0, 0, 2, 0)

\* C4 (as claimed): however the threads' first calls interleave,
\* torch.compile runs exactly once.
C4_CompiledExactlyOnce ==
    /\ compile_count <= 1
    /\ handles_seen # {} => compile_count = 1

\* C5 (as claimed): every accessor call, in every interleaving, returns the
\* same compiled callable, the first one constructed, on the same instance.
C5_OneHandleForAll ==
    /\ handles_seen \subseteq {Some(1)}
    /\ instances_seen \subseteq {1}

\* C6: in one thread, every WrappedFlexAttention() returns the same instance
\* and every WrappedFlexAttention()() the same compiled callable.
C6_AccessorIdentityStable ==
    /\ Cardinality(instances_seen) <= 1
    /\ Cardinality(handles_seen) <= 1
    /\ None \notin handles_seen

C6_Witness ==
    /\ calls[MainThread] = 2 /\ pc[MainThread] = "invoke"
    /\ instances_seen = {1} /\ handles_seen = {Some(1)}

\* C7: in a sequential run nothing is compiled before the first call, the
\* first call compiles, and from then on the one instance keeps the one
\* compiled callable: no later call compiles or stores again.
FirstInitDone ==
    \/ calls[MainThread] >= 2
    \/ pc[MainThread] \in {"call", "invoke", "fwd_finish"}
    \/ (calls[MainThread] = 1 /\ pc[MainThread] = "idle")

C7_CompiledLazilyOnce ==
    /\ calls[MainThread] = 0 => (compile_count = 0 /\ objs = <<>> /\ cls_instance = None)
    /\ compile_count <= 1
    /\ FirstInitDone =>
          /\ compile_count = 1
          /\ cls_instance = Some(1)
          /\ objs = <<[is_flex_compiled |-> TRUE, compiled_flex_attention |-> Some(1)]>>

C7_Witness ==
    /\ calls[MainThread] = 2 /\ pc[MainThread] = "fwd_finish"
    /\ kernel_calls = 2 /\ compile_count = 1

\* The arguments of the latest kernel invocation made by flex_attention_forward
KernelArgs == Get(Get(last_kernel_call).kwargs)
KernelFromForward == last_kernel_call # None /\ Get(last_kernel_call).kwargs # None
Unreplicated(a) == [h \in 1..a.Hkv |-> h]

\* C8 (as claimed): when Hq is not a power of two, the key and value given to
\* the kernel have Hq heads, for every Hkv dividing Hq, and enable_gqa is off.
C8_ReplicatedHeadsMatchQuery ==
    (KernelFromForward /\ ~ IsPow2(KernelArgs.Hq)) =>
        /\ Len(KernelArgs.key) = KernelArgs.Hq
        /\ Len(KernelArgs.value) = KernelArgs.Hq
        /\ KernelArgs.enable_gqa = FALSE

\* C9: the kernel gets enable_gqa = True and the key and value as passed in
\* exactly when Hq is a power of two (1 included); otherwise both are
\* replicated and the flag is False: the flag is False exactly when
\* replication was performed.
C9_NativeGqaIffPowerOfTwo ==
    KernelFromForward =>
        LET a == KernelArgs
        IN  /\ (a.enable_gqa /\ a.key = Unreplicated(a) /\ a.value = Unreplicated(a))
                  <=> IsPow2(a.Hq)
            /\ ~ IsPow2(a.Hq) =>
                  /\ ~ a.enable_gqa
                  /\ a.key # Unreplicated(a) /\ a.value # Unreplicated(a)
            /\ ~ a.enable_gqa <=> (a.key # Unreplicated(a) \/ a.value # Unreplicated(a))

C9_Witness ==
    /\ KernelFromForward
    /\ KernelArgs.Hq = 3 /\ KernelArgs.Hkv = 1
    /\ KernelArgs.key = <<1, 1, 1>> /\ ~ KernelArgs.enable_gqa

\* C10 (as claimed): the padded mask and the document-id grid have width
\* exactly key_length.
C10_PaddedWidthIsKeyLength ==
    mask_pc # "args" =>
        /\ Shape(heap[attention_mask_2d])[2] = key_length
        /\ Shape(heap[document_ids])[2] = key_length

\* C10 (amended): key_length zeros are appended: the padded mask is M followed
\* by key_length zeros in every row, so its width is total_seq_len +
\* key_length, and the document-id grid has the same shape.
C10_PaddedByKeyLength ==
    mask_pc # "args" =>
        LET padded == heap[attention_mask_2d]
        IN  /\ Shape(padded) = <<batch_size, total_seq_len + key_length>>
            /\ Shape(heap[document_ids]) = Shape(padded)
            /\ \A b \in Batches, i \in 0..(total_seq_len + key_length - 1) :
                  At(padded, b, i) = MZ(b, i)

C10_Witness ==
    /\ mask_pc = "built"
    /\ total_seq_len = 2 /\ key_length = 3
    /\ Shape(heap[attention_mask_2d]) = <<batch_size, 5>>
    /\ At(heap[attention_mask_2d], 0, 1) > 0 /\ At(heap[attention_mask_2d], 0, 4) = 0

\* C11 (as claimed): whenever key_length is smaller than the width of the
\* mask passed in, the call fails and returns no mask.
C11_NarrowKeyLengthFails ==
    (mask_pc # "args" /\ key_length < total_seq_len) =>
        (mask_pc = "raised" /\ block_mask = None)

\* C11 (amended): a key_length smaller than the mask's width raises no shape
\* error: key_length zero columns are appended all the same, and a mask with
\* KV_LEN = key_length is returned exactly when query_length is at most
\* total_seq_len + key_length, the width of the padded mask.
C11_NarrowKeyLengthBuilds ==
    (mask_pc # "args" /\ key_length < total_seq_len) =>
        /\ Shape(heap[attention_mask_2d])[2] = total_seq_len + key_length
        /\ mask_pc = "built" <=> query_length <= total_seq_len + key_length
        /\ mask_pc = "built" => Get(block_mask).KV_LEN = key_length

C11_Witness ==
    /\ mask_pc = "built"
    /\ total_seq_len = 3 /\ key_length = 1 /\ query_length = 4
    /\ Get(block_mask).KV_LEN = 1
    /\ At(M, 0, 0) > 0 /\ allowed(0, 0, 0, 0)

\* C12 (as claimed): a chunk size that is zero or negative is rejected when
\* the function is called: it raises, returns no mask and computes no
\* document ids.
C12_NonPositiveChunkRejected ==
    (mask_pc # "args" /\ attention_chunk_size # None /\ Get(attention_chunk_size) <= 0) =>
        /\ mask_pc = "raised"
        /\ block_mask = None
        /\ heap = <<mask_passed>>

\* C18: in both modes the tensor the caller passed is left as it was, and a
\* second call with the same tensor and arguments returns the same mask.
C18_CallerMaskUntouched ==
    /\ heap[CallerMask] = mask_passed
    /\ Len(mask_results) = 2 => mask_results[1] = mask_results[2]

C18_Witness ==
    /\ Len(mask_results) = 2 /\ mask_pc = "built"
    /\ attention_chunk_size = Some(2)
    /\ mask_passed = <<(<<1, 0, 2>>)>>
    /\ heap[CallerMask] = <<(<<1, 0, 2>>)>>
    /\ heap[attention_mask_2d] # heap[document_ids]

\* C19: the predicate does not depend on the head: the mask is built once
\* with a broadcast head axis, for batch_size rows, query_length queries and
\* key_length keys.
C19_HeadIndependent ==
    mask_pc = "built" =>
        LET bm == Get(block_mask)
        IN  /\ bm.H = 1 /\ bm.B = batch_size
            /\ bm.Q_LEN = query_length /\ bm.KV_LEN = key_length
            /\ bm.mask \subseteq Batches \X {0} \X Queries \X Keys
            /\ \A b \in Batches, h \in Heads, q \in Queries, k \in Keys :
                  allowed(b, h, q, k) = allowed(b, 0, q, k)

C19_Witness ==
    /\ mask_pc = "built" /\ batch_size = 2
    /\ query_length = 2 /\ key_length = 3
    /\ Get(block_mask).H = 1
    /\ allowed(1, 0, 1, 0) /\ allowed(1, 2, 1, 0) /\ ~ allowed(0, 1, 1, 0)

\* The row of six ones of the chunk example, with both lengths 6 and chunk 2
ChunkExample ==
    /\ mask_pc = "built" /\ attention_chunk_size = Some(2)
    /\ M = <<(<<1, 1, 1, 1, 1, 1>>)>>
    /\ query_length = 6 /\ key_length = 6

ExampleIds == [p \in 1..6 |-> heap[document_ids][1][p]]

\* C20 (as claimed): in the example the document ids are 0,0,1,1,2,2 and
\* query 4 may attend to exactly the keys 2, 3 and 4.
C20_Query4Attends234 ==
    ChunkExample =>
        /\ ExampleIds = <<0, 0, 1, 1, 2, 2>>
        /\ {k \in Keys : allowed(0, 0, 4, k)} = {2, 3, 4}

\* C20 (amended): in the example the document ids are 0,0,1,1,2,2 and query 4
\* may attend to key 4 alone: 2 and 3 are in chunk 1, 4 opens chunk 2, and 5
\* is in the future.
C20_Query4AttendsItself ==
    ChunkExample =>
        /\ ExampleIds = <<0, 0, 1, 1, 2, 2>>
        /\ {k \in Keys : allowed(0, 0, 4, k)} = {4}

C20_Witness ==
    /\ ChunkExample
    /\ allowed(0, 0, 4, 4) /\ ~ allowed(0, 0, 4, 3) /\ allowed(0, 0, 3, 2)

\* The flex_attention_forward call the latest kernel invocation belongs to
ForwardCall == IF fwd # None THEN Get(fwd) ELSE Get(fwd_result).call
IsDense(m) == m # None /\ Get(m).kind = "dense"
KeyPositions(a) ==
    IF IsDense(a.attention_mask)
    THEN 0..(Min(Get(a.attention_mask).width, a.Lk) - 1)
    ELSE 0..(a.Lk - 1)

\* C13: when the kernel is invoked, block_mask and the dense mask are never
\* both set. A BlockMask argument is passed on as block_mask and score_mod
\* adds no mask term; a dense argument leaves block_mask None, reaches
\* score_mod with its last axis cut at the key length, and is the term
\* score_mod adds. Without a mask both stay None.
C13_OneMaskPath ==
    KernelFromForward =>
        LET a == ForwardCall.args
            k == KernelArgs
            m == a.attention_mask
            bias(b, h) == IF a.head_mask # None THEN HeadMaskAt(b, h) ELSE 0
        IN  /\ ~ (k.block_mask # None /\ k.score_mod.causal_mask # None)
            /\ is_block_mask(m) =>
                  /\ k.block_mask = m
                  /\ k.score_mod.causal_mask = None
                  /\ score_mod(k.score_mod, Score(0), 0, 0, 0, 0).plus = bias(0, 0)
            /\ IsDense(m) =>
                  /\ k.block_mask = None
                  /\ k.score_mod.causal_mask =
                        Some(DenseMask(Get(m).heads, Min(Get(m).width, a.Lk)))
                  /\ Get(k.score_mod.causal_mask).width <= a.Lk
                  /\ \A kv \in KeyPositions(a) :
                        score_mod(k.score_mod, Score(0), 0, 0, 0, kv).plus
                            = DenseAt(Get(m), 0, 0, 0, kv) + bias(0, 0)
            /\ m = None => (k.block_mask = None /\ k.score_mod.causal_mask = None)

C13_Witness ==
    /\ KernelFromForward
    /\ ForwardCall.args.Lk = 2
    /\ ForwardCall.args.attention_mask = Some(DenseMask(2, 3))
    /\ KernelArgs.block_mask = None
    /\ KernelArgs.score_mod.causal_mask = Some(DenseMask(2, 2))

\* C14: for every score and every index, score_mod returns
\* cap(score) + mask[b][0][q][k] + head_mask[b][h][0][0], where cap is the
\* soft cap when softcap is set and the identity otherwise and an absent mask
\* or bias adds nothing: the mask is read from head slot 0 whatever h is, and
\* neither added term is under the tanh.
C14_ScoreModOrder ==
    (pc[MainThread] = "invoke" /\ fwd # None) =>
        LET a == Get(fwd).args
            cl == Get(fwd).score_mod
        IN  \A b \in 0..(a.B - 1), h \in 0..(a.Hq - 1), q \in 0..(a.Lq - 1),
               kv \in KeyPositions(a), s \in {0, 7} :
                LET capped == IF a.softcap # None
                              THEN [tanh |-> Some([softcap |-> Get(a.softcap),
                                                   of |-> [tanh |-> None, plus |-> s]]),
                                    plus |-> 0]
                              ELSE [tanh |-> None, plus |-> s]
                    mask_term == IF IsDense(a.attention_mask)
                                 THEN 1000 * b + 10 * q + kv + 1
                                 ELSE 0
                    bias_term == IF a.head_mask # None
                                 THEN 10000 * (10 * b + h + 1)
                                 ELSE 0
                IN  score_mod(cl, Score(s), b, h, q, kv)
                        = [tanh |-> capped.tanh,
                           plus |-> capped.plus + mask_term + bias_term]

C14_Witness ==
    /\ pc[MainThread] = "invoke" /\ fwd # None
    /\ Get(fwd).args.softcap = Some(30)
    /\ Get(fwd).args.head_mask # None
    /\ Get(fwd).args.attention_mask = Some(DenseMask(2, 2))
    /\ Get(fwd).args.B = 2 /\ Get(fwd).args.Hq = 3 /\ Get(fwd).args.Lk = 2
    /\ score_mod(Get(fwd).score_mod, Score(7), 1, 2, 1, 1)
          = [tanh |-> Some([softcap |-> 30, of |-> Score(7)]), plus |-> 131012]

\* C15: a call that returns for a query of shape (B, Hq, Lq, D) returns an
\* output of shape (B, Lq, Hq, D), whether or not the heads were replicated.
C15_OutputShape ==
    (fwd_result # None /\ Get(fwd_result).status = "returned") =>
        LET a == Get(fwd_result).call.args
        IN  Get(fwd_result).output = Some(<<a.B, a.Lq, a.Hq, a.D>>)

C15_Witness ==
    /\ fwd_result # None /\ Get(fwd_result).status = "returned"
    /\ Get(fwd_result).call.query = <<2, 3, 1, 2>>
    /\ ~ Get(fwd_result).call.enable_gqa
    /\ Get(fwd_result).output = Some(<<2, 1, 3, 2>>)

\* C16: a call that has returned invoked the kernel once, the kernel being
\* the callable stored in the singleton, with return_lse = True, the
\* score_mod and block_mask built from its arguments, the enable_gqa flag of
\* its head count and scale = scaling.
C16_OneKernelCallWithLse ==
    (fwd_result # None /\ Get(fwd_result).status = "returned") =>
        LET f == Get(fwd_result).call
            a == f.args
            m == a.attention_mask
            dense == IF IsDense(m)
                     THEN Some(DenseMask(Get(m).heads, Min(Get(m).width, a.Lk)))
                     ELSE None
        IN  /\ kernel_calls = f.kernel_calls_before + 1
            /\ KernelFromForward
            /\ Get(last_kernel_call).raised = None
            /\ cls_instance # None
            /\ Some(Get(last_kernel_call).fn)
                  = objs[Get(cls_instance)].compiled_flex_attention
            /\ KernelArgs.return_lse = TRUE
            /\ KernelArgs.score_mod
                  = [softcap |-> a.softcap, causal_mask |-> dense, head_mask |-> a.head_mask]
            /\ KernelArgs.block_mask = (IF is_block_mask(m) THEN m ELSE None)
            /\ KernelArgs.enable_gqa = IsPow2(a.Hq)
            /\ KernelArgs.scale = a.scaling
            /\ KernelArgs.query = <<a.B, a.Hq, a.Lq, a.D>>

C16_Witness ==
    /\ fwd_result # None /\ Get(fwd_result).status = "returned"
    /\ kernel_calls = 1
    /\ KernelArgs.return_lse
    /\ KernelArgs.scale = Some(5)
    /\ KernelArgs.block_mask = Some(BlockMaskArg)
    /\ KernelArgs.score_mod.softcap = Some(30)

\* C17: when the kernel raised, the call ended with that very error, without
\* an output or weights, the kernel was invoked once for the call, and the
\* singleton still stores the compiled callable that was invoked.
C17_KernelErrorPropagates ==
    (pc[MainThread] = "idle" /\ KernelFromForward /\ Get(last_kernel_call).raised # None) =>
        /\ fwd_result # None
        /\ Get(fwd_result).status = "raised"
        /\ Get(fwd_result).error = Get(last_kernel_call).raised
        /\ Get(fwd_result).output = None
        /\ Get(fwd_result).weights = None
        /\ kernel_calls = Get(fwd_result).call.kernel_calls_before + 1
        /\ cls_instance = Some(1)
        /\ objs = <<[is_flex_compiled |-> TRUE,
                     compiled_flex_attention |-> Some(Get(last_kernel_call).fn)]>>
        /\ compile_count = 1

C17_Witness ==
    /\ pc[MainThread] = "idle"
    /\ fwd_result # None
    /\ Get(fwd_result).status = "raised"
    /\ Get(fwd_result).error = Some("ShapeError")
    /\ kernel_calls = 2
    /\ Get(last_kernel_call).raised = Some("ShapeError")

\* C21: without a chunk size no allowed pair has a padding key: the key's
\* value in M, read as 0 beyond the width of M, is positive, and so is its
\* value in the padded mask.
C21_PackedNoPaddingKey ==
    (mask_pc = "built" /\ attention_chunk_size = None) =>
        \A b \in Batches, h \in Heads, q \in Queries, k \in Keys :
            allowed(b, h, q, k) =>
                (MZ(b, k) > 0 /\ At(heap[attention_mask_2d], b, k) > 0)

\* A padding key before a real query, and a key beyond the width of M.
C21_Witness ==
    /\ mask_pc = "built" /\ attention_chunk_size = None
    /\ M = <<(<<0, 1>>)>> /\ query_length = 3 /\ key_length = 3
    /\ allowed(0, 0, 1, 1) /\ ~ allowed(0, 0, 1, 0) /\ ~ allowed(0, 0, 2, 2)

\* C22 (as claimed): with a chunk size no allowed pair has a padding key.
C22_ChunkNoPaddingKey ==
    (mask_pc = "built" /\ attention_chunk_size # None) =>
        \A b \in Batches, h \in Heads, q \in Queries, k \in Keys :
            allowed(b, h, q, k) => MZ(b, k) > 0

\* C29: in both modes, for q below both lengths, the pair (q, q) is allowed
\* exactly when M[b,q] > 0, so every real query below key_length has a key.
C29_SelfAttention ==
    mask_pc = "built" =>
        \A b \in Batches, q \in 0..(Min(query_length, key_length) - 1) :
            /\ \A h \in Heads : allowed(b, h, q, q) <=> MZ(b, q) > 0
            /\ MZ(b, q) > 0 => \E k \in Keys : allowed(b, 0, q, k)

C29_Witness ==
    /\ mask_pc = "built" /\ attention_chunk_size = Some(2)
    /\ M = <<(<<0, 1, 0>>)>> /\ query_length = 4 /\ key_length = 3
    /\ allowed(0, 0, 1, 1) /\ ~ allowed(0, 0, 0, 0) /\ ~ allowed(0, 0, 2, 2)

\* C30: when query_length is at most max(S, key_length), the mask is built:
\* the padded mask and the document ids are at least max(query_length,
\* key_length) wide, every read of the predicate is inside both, and the
\* padded mask is 0 from position S on.
C30_ReadsInBounds ==
    (mask_pc # "args" /\ query_length <= Max(total_seq_len, key_length)) =>
        LET padded == heap[attention_mask_2d]
            ids == heap[document_ids]
        IN  /\ mask_pc = "built"
            /\ Shape(padded)[2] >= Max(query_length, key_length)
            /\ Shape(ids) = Shape(padded)
            /\ \A b \in Batches, q \in Queries, k \in Keys :
                  ModInRange(padded, ids, b, q, k)
            /\ \A b \in Batches, i \in total_seq_len..(Shape(padded)[2] - 1) :
                  At(padded, b, i) = 0

C30_Witness ==
    /\ mask_pc = "built"
    /\ total_seq_len = 2 /\ key_length = 3 /\ query_length = 3
    /\ At(M, 0, 1) > 0
    /\ At(heap[attention_mask_2d], 0, 2) = 0 /\ ~ allowed(0, 0, 2, 2)

\* C23: repeat_kv returns Hkv * n_rep heads, head j (from 0) being input
\* head j div n_rep with its batch, sequence and feature axes as they were:
\* the copies of one head are adjacent, not Hkv apart; with n_rep = 1 the
\* result is the input.
C23_RepeatInterleaves ==
    repeated # None =>
        LET r == Get(repeated)
            Hkv == Len(kv_states)
        IN  /\ Len(r) = Hkv * kv_n_rep
            /\ \A j \in 0..(Len(r) - 1) : r[j + 1] = kv_states[(j \div kv_n_rep) + 1]
            /\ (kv_n_rep > 1 /\ Hkv > 1) => r[2] # kv_states[(1 % Hkv) + 1]
            /\ kv_n_rep = 1 => r = kv_states

C23_Witness ==
    /\ repeated # None
    /\ Len(kv_states) = 2 /\ kv_n_rep = 2
    /\ Len(kv_states[1]) = 2 /\ Len(kv_states[1][1]) = 1 /\ Len(kv_states[1][1][1]) = 2
    /\ Get(repeated) = <<kv_states[1], kv_states[1], kv_states[2], kv_states[2]>>

\* C24 (as claimed): after a construction with vision_config None the
\* attribute vision_config is the default Phi4MultimodalVisionConfig, and
\* after one with a dict it is the Phi4MultimodalVisionConfig of that dict.
C24_VisionConfigDefaulted ==
    config_pc = "done" =>
        LET given == Get(config_args).vision_config
            stored == Get(config_self).vision_config
        IN  /\ given.kind = "NoneType" =>
                  stored = [kind |-> "Phi4MultimodalVisionConfig",
                            num_hidden_layers |-> Some(27), num_channels |-> Some(3)]
            /\ given.kind = "dict" =>
                  /\ stored.kind = "Phi4MultimodalVisionConfig"
                  /\ \A layers \in 1..MaxConfigValue :
                        given.num_hidden_layers = Some(layers)
                            => stored.num_hidden_layers = Some(layers)

\* C25 (as claimed): after a construction with audio_config None the
\* attribute audio_config is the default Phi4MultimodalAudioConfig, whatever
\* vision_config was.
C25_AudioConfigDefaulted ==
    (config_pc = "done" /\ Get(config_args).audio_config.kind = "NoneType") =>
        Get(config_self).audio_config
            = [kind |-> "Phi4MultimodalAudioConfig", time_reduction |-> Some(8),
               input_size |-> Some(80), nemo_final_size |-> Some(10)]

\* C26: in every interleaving no accessor call returns None: a thread that
\* is about to return has the compiled callable on its instance, and on
\* every instance the flag is True only once the callable is stored.
C26_NeverReturnsNone ==
    /\ None \notin handles_seen
    /\ \A t \in Threads :
          /\ pc[t] = "call" => objs[Get(self_ref[t])].compiled_flex_attention # None
          /\ pc[t] = "invoke" => ret[t] # None
    /\ \A o \in 1..Len(objs) :
          objs[o].is_flex_compiled => objs[o].compiled_flex_attention # None

\* Two threads raced through __new__ and __init__, and both have a callable.
C26_Witness ==
    /\ Len(objs) = 2 /\ compile_count = 2
    /\ pc[1] = "invoke" /\ pc[2] = "invoke"
    /\ ret[1] # None /\ ret[2] # None /\ ret[1] # ret[2]

\* No call is in flight and at least one was made
Quiescent ==
    /\ \A t \in Threads : pc[t] = "idle"
    /\ \E t \in Threads : calls[t] > 0

\* The registered instance is initialised and no thread is at a step that
\* writes the class or an instance
Converged ==
    /\ cls_instance # None
    /\ objs[Get(cls_instance)].is_flex_compiled
    /\ objs[Get(cls_instance)].compiled_flex_attention # None
    /\ \A t \in Threads :
          /\ pc[t] \in {"idle", "new_check", "new_return", "init_check", "call", "invoke"}
          /\ pc[t] \in {"init_check", "call"} => self_ref[t] = cls_instance

\* C27: once every call in flight has returned, the registered instance has
\* completed __init__; from then on no step compiles or writes the class or
\* an instance, and every accessor call returns the callable stored there.
C27_CacheConverges ==
    /\ [](Quiescent => Converged)
    /\ [][Converged =>
            /\ Converged'
            /\ UNCHANGED cacheVars
            /\ \A t \in Threads :
                  (pc[t] = "call" /\ pc'[t] = "invoke") =>
                      ret'[t] = objs[Get(cls_instance)].compiled_flex_attention]_vars

\* After a race that created two instances and compiled twice, a later call
\* is about to return the callable of the registered instance.
C27_Witness ==
    /\ Len(objs) = 2 /\ compile_count = 2
    /\ Converged
    /\ calls[1] = 2 /\ pc[1] = "invoke" /\ pc[2] = "idle"
    /\ ret[1] = objs[Get(cls_instance)].compiled_flex_attention

\* C28: when torch.compile raised, the call ended with that error and
\* without a kernel call, the instance is registered with the flag False and
\* no callable; a call that gets as far as returning the callable has
\* compiled it (again, if need be), and the flag is True only when the
\* callable is set.
C28_CompileErrorRetried ==
    /\ \A o \in 1..Len(objs) :
          objs[o].is_flex_compiled => objs[o].compiled_flex_attention # None
    /\ (fwd_result # None /\ Get(fwd_result).error = Some("CompileError")) =>
          /\ Get(fwd_result).status = "raised" /\ Get(fwd_result).output = None
          /\ cls_instance = Some(1)
          /\ objs = <<[is_flex_compiled |-> FALSE, compiled_flex_attention |-> None]>>
          /\ compile_count = calls[MainThread]
          /\ kernel_calls = 0
    /\ pc[MainThread] \in {"call", "invoke", "fwd_finish"} =>
          objs = <<[is_flex_compiled |-> TRUE,
                    compiled_flex_attention |-> Some(compile_count)]>>
    /\ pc[MainThread] \in {"invoke", "fwd_finish"} => ret[MainThread] = Some(compile_count)

\* The first call failed in torch.compile and the second one compiled.
C28_Witness ==
    /\ calls[MainThread] = 2 /\ compile_count = 2
    /\ pc[MainThread] = "invoke"
    /\ ret[MainThread] = Some(2)
    /\ objs = <<[is_flex_compiled |-> TRUE, compiled_flex_attention |-> Some(2)]>>

====
